---- MODULE Spec2Model ----
(***************************************************************************)
(* ParamStock: the alert store (table `alert`), the three API handlers of  *)
(* backend.py (add_alert, get_alerts, delete_alert) and the background     *)
(* thread price_checker_worker, which shares the table with the handlers.  *)
(*                                                                         *)
(* The table is an SQLite table whose primary key is a plain INTEGER       *)
(* column (backend.py:37), i.e. the rowid: an insert takes max(id)+1, so   *)
(* the id of a deleted last row is handed out again.  Every row carries a  *)
(* history field `uid` (the number of the create that made it), which the  *)
(* program does not have; no action reads it.                              *)
(*                                                                         *)
(* The worker holds ORM objects: a snapshot of the rows, cached until the  *)
(* session commits; a commit expires every object of the session, and the  *)
(* next attribute access re-reads the row by primary key.                  *)
(***************************************************************************)
EXTENDS Integers, Sequences, FiniteSets, TLC

VARIABLES
    alerts,         \* the rows of table `alert`
    nextUid,        \* history: number of rows ever inserted
    resp,           \* the last HTTP response of the API
    delReq,         \* delete_alert requests between Alert.query.get and commit
    deleted,        \* history: uids whose delete_alert returned 200
    TWILIO_CONFIG,  \* config['twilio']: the credentials the configuration file gives
    pc,             \* position of price_checker_worker
    active_alerts,  \* the worker's snapshot: ORM objects (backend.py:112)
    idx,            \* position of the for loop in active_alerts
    expired,        \* the session committed in this cycle: objects are expired
    price,          \* the worker's local `price`
    triggered,      \* the worker's local `triggered`
    delivery        \* history: outcome of the Notifier call for the current alert

vars == <<alerts, nextUid, resp, delReq, deleted, TWILIO_CONFIG,
          pc, active_alerts, idx, expired, price, triggered, delivery>>

apiVars    == <<alerts, nextUid, resp, delReq, deleted>>
workerVars == <<pc, active_alerts, idx, expired, price, triggered, delivery>>

----------------------------------------------------------------------------
(* Bounds *)

MaxCreates == 2            \* rows ever inserted
MaxPrice   == 3            \* the Quote Source answers None or 0..MaxPrice
MaxTarget  == 6            \* target prices 1..MaxTarget where only the decision is checked

Ids == 1..(MaxCreates + 1) \* ids a delete request may name (one is never used)

----------------------------------------------------------------------------
(* Values *)

None == -1                 \* Python's None as the result of get_stock_price

Max(S) == CHOOSE m \in S : \A x \in S : x <= m

(* str.upper() on a string given as a sequence of characters *)
UpperChar(c) ==
    CASE c = "a" -> "A"
      [] c = "b" -> "B"
      [] c = "t" -> "T"
      [] OTHER   -> c

(* upper() forgotten: the ticker stored as typed *)
upper_identity(s) == s

upper(s) == [i \in 1..Len(s) |-> UpperChar(s[i])]

(* A JSON value of the request body: a number or a string *)
JsonNum(n) == [kind |-> "num", num |-> n, str |-> << >>]
JsonStr(s) == [kind |-> "str", num |-> 0, str |-> s]

Digits == <<"0", "1", "2", "3", "4", "5", "6", "7", "8", "9">>
IsDigit(c)  == \E d \in 1..10 : Digits[d] = c
DigitVal(c) == (CHOOSE d \in 1..10 : Digits[d] = c) - 1

RECURSIVE ParseDigits(_, _)
ParseDigits(s, acc) ==
    IF s = << >> THEN acc
    ELSE ParseDigits(Tail(s), 10 * acc + DigitVal(Head(s)))

(* float(x): a number keeps its value; a string is parsed, with an optional
   sign, and raises ValueError when it is not a number *)
float(v) ==
    IF v.kind = "num" THEN [ok |-> TRUE, val |-> v.num]
    ELSE LET neg  == v.str # << >> /\ Head(v.str) = "-"
             body == IF neg THEN Tail(v.str) ELSE v.str
         IN  IF body # << >> /\ \A i \in 1..Len(body) : IsDigit(body[i])
             THEN [ok |-> TRUE,
                   val |-> IF neg THEN 0 - ParseDigits(body, 0)
                                  ELSE ParseDigits(body, 0)]
             ELSE [ok |-> FALSE, val |-> 0]

----------------------------------------------------------------------------
(* The table and its queries *)

Alert(id, uid, phone, ticker, target, condition, dot) ==
    [id                |-> id,
     uid               |-> uid,
     user_phone_number |-> phone,
     ticker            |-> ticker,
     target_price      |-> target,
     condition         |-> condition,
     delete_on_trigger |-> dot,
     alert_sent        |-> FALSE]

(* Alert.query.get(id): the rows with that primary key (none or one) *)
QueryGet(id) == {a \in alerts : a.id = id}

(* the id SQLite gives to an inserted row: one more than the largest rowid *)
NewId == IF alerts = {} THEN 1 ELSE Max({a.id : a \in alerts}) + 1

(* rows of a set in rowid order, as .all() returns them *)
RECURSIVE InIdOrder(_)
InIdOrder(S) ==
    IF S = {} THEN << >>
    ELSE LET a == CHOOSE x \in S : \A y \in S : x.id <= y.id
         IN  <<a>> \o InIdOrder(S \ {a})

(* the filter on alert_sent forgotten *)
QueryActive_unfiltered == InIdOrder(alerts)

(* Alert.query.filter_by(alert_sent=False).all() *)
QueryActive == InIdOrder({a \in alerts : a.alert_sent = FALSE})

(* the filter on the phone number forgotten *)
QueryByPhone_unfiltered(phone_number) == InIdOrder(alerts)

(* Alert.query.filter_by(user_phone_number=phone_number).all() *)
QueryByPhone(phone_number) ==
    InIdOrder({a \in alerts : a.user_phone_number = phone_number})

----------------------------------------------------------------------------
(* API handlers *)

(* an HTTP response: the handler, the status code and the JSON list of a
   get_alerts answer (empty for the other handlers) *)
Response(op, code, body) == [op |-> op, code |-> code, body |-> body]

(* POST /api/add_alert *)
add_alert(phone_number, ticker, target_price, condition, delete_on_trigger) ==
    /\ nextUid < MaxCreates
    /\ LET t == float(target_price)
       IN  IF t.ok
           THEN /\ alerts' = alerts \cup
                      {Alert(NewId, nextUid + 1, phone_number, upper(ticker),
                             t.val, condition, delete_on_trigger)}
                /\ nextUid' = nextUid + 1
                /\ resp' = Response("add_alert", 201, << >>)
           ELSE /\ resp' = Response("add_alert", 500, << >>)
                /\ UNCHANGED <<alerts, nextUid>>
    /\ UNCHANGED <<delReq, deleted, TWILIO_CONFIG, workerVars>>

(* the JSON list get_alerts returns for a phone number *)
AlertJson(a) ==
    [id           |-> a.id,
     ticker       |-> a.ticker,
     target_price |-> a.target_price,
     condition    |-> a.condition,
     alert_sent   |-> a.alert_sent]

get_alerts_json(phone_number) ==
    LET rows == QueryByPhone(phone_number)
    IN  [i \in 1..Len(rows) |-> AlertJson(rows[i])]

(* GET /api/get_alerts/<phone_number>: the route matches a non-empty segment *)
get_alerts(phone_number) ==
    /\ phone_number # ""
    /\ resp' = Response("get_alerts", 200, get_alerts_json(phone_number))
    /\ UNCHANGED <<alerts, nextUid, delReq, deleted, TWILIO_CONFIG, workerVars>>

(* a missing row answered like a deleted one *)
delete_alert_always_ok(alert_id) ==
    /\ delReq = {}
    /\ IF QueryGet(alert_id) # {}
       THEN /\ delReq' = {[id  |-> alert_id,
                          uid |-> (CHOOSE a \in QueryGet(alert_id) : TRUE).uid]}
            /\ UNCHANGED resp
       ELSE /\ resp' = Response("delete_alert", 200, << >>)
            /\ UNCHANGED delReq
    /\ UNCHANGED <<alerts, nextUid, deleted, TWILIO_CONFIG, workerVars>>

(* POST /api/delete_alert/<id>, up to `if alert:`: the row is looked up; a
   missing row answers 404 at once, a found one is deleted in a second step *)
delete_alert(alert_id) ==
    /\ delReq = {}
    /\ IF QueryGet(alert_id) # {}
       THEN /\ delReq' = {[id  |-> alert_id,
                          uid |-> (CHOOSE a \in QueryGet(alert_id) : TRUE).uid]}
            /\ UNCHANGED resp
       ELSE /\ resp' = Response("delete_alert", 404, << >>)
            /\ UNCHANGED delReq
    /\ UNCHANGED <<alerts, nextUid, deleted, TWILIO_CONFIG, workerVars>>

(* the DELETE never sent: the handler answers 200 and the row stays *)
delete_alert_commit_keeps ==
    /\ delReq # {}
    /\ deleted' = deleted \cup {(CHOOSE r \in delReq : TRUE).uid}
    /\ delReq' = {}
    /\ resp' = Response("delete_alert", 200, << >>)
    /\ UNCHANGED <<alerts, nextUid, TWILIO_CONFIG, workerVars>>

(* db.session.delete(alert); db.session.commit(): DELETE ... WHERE id = ?;
   a DELETE that matches no row is a warning, and the handler answers 200 *)
delete_alert_commit ==
    /\ delReq # {}
    /\ LET r == CHOOSE r \in delReq : TRUE
       IN  /\ alerts' = {a \in alerts : a.id # r.id}
           /\ deleted' = deleted \cup {r.uid}
    /\ delReq' = {}
    /\ resp' = Response("delete_alert", 200, << >>)
    /\ UNCHANGED <<nextUid, TWILIO_CONFIG, workerVars>>

----------------------------------------------------------------------------
(* price_checker_worker *)

(* the three credentials the worker asks for *)
CredKeys == {"account_sid", "auth_token", "phone_number"}

(* a configuration: each key missing, empty or set *)
TwilioConfigs ==
    UNION {[D -> {"", "set"}] : D \in SUBSET CredKeys}

(* TWILIO_CONFIG.get(k) is truthy: the key is there and its value not empty *)
HasCred(k) == k \in DOMAIN TWILIO_CONFIG /\ TWILIO_CONFIG[k] # ""

(* only the account sid looked at *)
configured_sid_only == HasCred("account_sid")

(* all([...]) of backend.py:101 *)
configured == \A k \in CredKeys : HasCred(k)

(* backend.py:101-104 *)
worker_start ==
    /\ pc = "start"
    /\ pc' = IF configured THEN "fetch" ELSE "idle"
    /\ UNCHANGED <<apiVars, TWILIO_CONFIG, active_alerts, idx, expired, price,
                   triggered, delivery>>

(* backend.py:112 *)
worker_fetch ==
    /\ pc = "fetch"
    /\ active_alerts' = QueryActive
    /\ idx' = 1
    /\ expired' = FALSE
    /\ pc' = "loop"
    /\ UNCHANGED <<apiVars, TWILIO_CONFIG, price, triggered, delivery>>

(* the comparisons taken strictly *)
Triggered_strict(condition, p, target_price) ==
    \/ (condition = "above" /\ p > target_price)
    \/ (condition = "below" /\ p < target_price)

(* the trigger decision, backend.py:118-119 *)
Triggered(condition, p, target_price) ==
    \/ (condition = "above" /\ p >= target_price)
    \/ (condition = "below" /\ p <= target_price)

(* the same decision as check_all_alerts takes it, price_checker.py:73-77 *)
alert_triggered(condition, p, target_price) ==
    IF condition = "below" /\ p <= target_price THEN TRUE
    ELSE IF condition = "above" /\ p >= target_price THEN TRUE
    ELSE FALSE

(* None not tested for: only a price of 0 is skipped *)
Falsy_zero_only(p) == p = 0

(* `not price`: None and 0 are falsy *)
Falsy(p) == p = None \/ p = 0

(* one iteration of the for loop up to `if triggered:` (backend.py:113-119).
   Reading alert.ticker of an expired object re-reads its row by id; a row
   that is gone raises ObjectDeletedError, which nothing catches. *)
worker_resolve(p) ==
    /\ pc = "loop"
    /\ idx <= Len(active_alerts)
    /\ LET obj  == active_alerts[idx]
           rows == QueryGet(obj.id)
       IN  IF expired /\ rows = {}
           THEN /\ pc' = "crashed"
                /\ UNCHANGED <<active_alerts, idx, price, triggered>>
           ELSE LET cur == IF expired THEN CHOOSE a \in rows : TRUE ELSE obj
                IN  /\ active_alerts' = [active_alerts EXCEPT ![idx] = cur]
                    /\ price' = p
                    /\ IF Falsy(p)
                       THEN /\ idx' = idx + 1
                            /\ pc' = "loop"
                            /\ UNCHANGED triggered
                       ELSE /\ triggered' = Triggered(cur.condition, p,
                                                      cur.target_price)
                            /\ pc' = "act"
                            /\ UNCHANGED idx
    /\ UNCHANGED <<apiVars, TWILIO_CONFIG, expired, delivery>>

(* the alert marked even though the condition is not met *)
worker_skip_marks ==
    /\ pc = "act"
    /\ ~triggered
    /\ alerts' = {IF a.id = active_alerts[idx].id
                   THEN [a EXCEPT !.alert_sent = TRUE]
                   ELSE a : a \in alerts}
    /\ idx' = idx + 1
    /\ pc' = "loop"
    /\ UNCHANGED <<nextUid, resp, delReq, deleted, TWILIO_CONFIG, active_alerts,
                   expired, price, triggered, delivery>>

(* `if triggered:` false: next alert *)
worker_skip ==
    /\ pc = "act"
    /\ ~triggered
    /\ idx' = idx + 1
    /\ pc' = "loop"
    /\ UNCHANGED <<apiVars, TWILIO_CONFIG, active_alerts, expired, price,
                   triggered, delivery>>

(* the Notifier call left out: straight on to the commit *)
worker_notify_skipped(ok) ==
    /\ pc = "act"
    /\ triggered
    /\ pc' = "commit"
    /\ UNCHANGED <<apiVars, TWILIO_CONFIG, active_alerts, idx, expired, price,
                   triggered, delivery>>

(* backend.py:122-127: the Notifier call; its exception is caught *)
worker_notify(ok) ==
    /\ pc = "act"
    /\ triggered
    /\ delivery' = IF ok THEN "sent" ELSE "failed"
    /\ pc' = "commit"
    /\ UNCHANGED <<apiVars, TWILIO_CONFIG, active_alerts, idx, expired, price,
                   triggered>>

(* backend.py:129-133.  DELETE of a missing row is a warning; UPDATE of a
   missing row raises StaleDataError, which nothing catches.  Both statements
   address the row by id. *)
worker_commit ==
    /\ pc = "commit"
    /\ LET obj == active_alerts[idx]
       IN  IF obj.delete_on_trigger
           THEN /\ alerts' = {a \in alerts : a.id # obj.id}
                /\ pc' = "loop"
           ELSE IF QueryGet(obj.id) = {}
                THEN /\ pc' = "crashed"
                     /\ UNCHANGED alerts
                ELSE /\ alerts' = {IF a.id = obj.id
                                   THEN [a EXCEPT !.alert_sent = TRUE]
                                   ELSE a : a \in alerts}
                     /\ pc' = "loop"
    /\ IF pc' = "loop"
       THEN /\ idx' = idx + 1
            /\ expired' = TRUE
       ELSE UNCHANGED <<idx, expired>>
    /\ delivery' = "none"
    /\ UNCHANGED <<nextUid, resp, delReq, deleted, TWILIO_CONFIG, active_alerts,
                   price, triggered>>

(* end of the for loop, time.sleep(CHECK_INTERVAL), next cycle *)
worker_sleep ==
    /\ pc = "loop"
    /\ idx > Len(active_alerts)
    /\ pc' = "fetch"
    /\ active_alerts' = << >>
    /\ idx' = 0
    /\ expired' = FALSE
    /\ price' = None
    /\ triggered' = FALSE
    /\ UNCHANGED <<apiVars, TWILIO_CONFIG, delivery>>

----------------------------------------------------------------------------
(* Inputs *)

Phones     == {"+91A"}
Tickers    == {<<"t", "B">>}
Targets    == {JsonNum(2)}
Conditions == {"above"}
Prices     == {None} \cup 0..MaxPrice

Init ==
    /\ alerts = {}
    /\ nextUid = 0
    /\ resp = Response("none", 0, << >>)
    /\ delReq = {}
    /\ deleted = {}
    /\ TWILIO_CONFIG \in TwilioConfigs
    /\ pc = "start"
    /\ active_alerts = << >>
    /\ idx = 0
    /\ expired = FALSE
    /\ price = None
    /\ triggered = FALSE
    /\ delivery = "none"

AddAlert ==
    \E ph \in Phones, tk \in Tickers, tg \in Targets, c \in Conditions,
       d \in BOOLEAN : add_alert(ph, tk, tg, c, d)

GetAlerts == \E ph \in Phones : get_alerts(ph)

DeleteAlert == \E id \in Ids : delete_alert(id)

Resolve == \E p \in Prices : worker_resolve(p)

Notify == \E ok \in BOOLEAN : worker_notify(ok)

Next ==
    \/ AddAlert
    \/ GetAlerts
    \/ DeleteAlert
    \/ delete_alert_commit
    \/ worker_start
    \/ worker_fetch
    \/ Resolve
    \/ worker_skip
    \/ Notify
    \/ worker_commit
    \/ worker_sleep

Spec == Init /\ [][Next]_vars

(* The API alone, as it runs when the credentials are incomplete and the
   worker idles: what the handlers accept, valid or not *)
PhonesApi  == {"", "+91A", "+91B"}
TickersApi == {<< >>, <<"t", "B">>}
TargetsApi == {JsonNum(0), JsonNum(2), JsonStr(<<"-", "1">>), JsonStr(<<"x">>)}

InitApi == Init /\ TWILIO_CONFIG = [k \in CredKeys |-> ""]

AddAlertApi ==
    \E ph \in PhonesApi, tk \in TickersApi, tg \in TargetsApi :
        add_alert(ph, tk, tg, "above", FALSE)

GetAlertsApi == \E ph \in PhonesApi : get_alerts(ph)

NextApi ==
    \/ AddAlertApi
    \/ GetAlertsApi
    \/ DeleteAlert
    \/ delete_alert_commit
    \/ worker_start

SpecApi == InitApi /\ [][NextApi]_vars

(* Two owners: the API and the worker, with alerts of two phone numbers *)
PhonesOwners     == {"+91A", "+91B"}
ConditionsOwners == {"above", "below"}

AddAlertOwners ==
    \E ph \in PhonesOwners, tk \in Tickers, tg \in Targets,
       c \in ConditionsOwners :
        add_alert(ph, tk, tg, c, FALSE)

GetAlertsOwners == \E ph \in PhonesOwners : get_alerts(ph)

(* the Quote Source fails, gives the target price, which triggers either
   comparison, or a price below it, which triggers "below" alone *)
PricesOwners == {None, 1, 2}

ResolveOwners == \E p \in PricesOwners : worker_resolve(p)

NextOwners ==
    \/ AddAlertOwners
    \/ GetAlertsOwners
    \/ DeleteAlert
    \/ delete_alert_commit
    \/ worker_start
    \/ worker_fetch
    \/ ResolveOwners
    \/ worker_skip
    \/ Notify
    \/ worker_commit
    \/ worker_sleep

(* the credentials are complete: the worker runs *)
InitOwners == Init /\ configured

SpecOwners == InitOwners /\ [][NextOwners]_vars

(* Comparisons of any spelling: add_alert stores the string it is given *)
ConditionsAny == {"above", "gte"}

AddAlertAny ==
    \E ph \in Phones, tk \in Tickers, tg \in Targets, c \in ConditionsAny,
       d \in BOOLEAN : add_alert(ph, tk, tg, c, d)

NextAny ==
    \/ AddAlertAny
    \/ GetAlerts
    \/ DeleteAlert
    \/ delete_alert_commit
    \/ worker_start
    \/ worker_fetch
    \/ ResolveOwners
    \/ worker_skip
    \/ Notify
    \/ worker_commit
    \/ worker_sleep

SpecAny == InitOwners /\ [][NextAny]_vars

(* The trigger decision alone: the worker has just taken a snapshot of one
   Pending alert, of any comparison and target, and meets any price *)
EvalTargets == 1..MaxTarget
EvalPrices  == {None} \cup 0..(MaxTarget + 1)

EvalConditions == {"above", "below"}

InitEval ==
    \E c \in EvalConditions, tg \in EvalTargets, d \in BOOLEAN :
        LET a == Alert(1, 1, "+91A", <<"T", "B">>, tg, c, d)
        IN  /\ alerts = {a}
            /\ nextUid = 1
            /\ resp = Response("add_alert", 201, << >>)
            /\ delReq = {}
            /\ deleted = {}
            /\ TWILIO_CONFIG = [k \in CredKeys |-> "set"]
            /\ pc = "loop"
            /\ active_alerts = <<a>>
            /\ idx = 1
            /\ expired = FALSE
            /\ price = None
            /\ triggered = FALSE
            /\ delivery = "none"

ResolveEval == \E p \in EvalPrices : worker_resolve(p)

NextEval ==
    \/ ResolveEval
    \/ worker_skip
    \/ Notify
    \/ worker_commit

SpecEval == InitEval /\ [][NextEval]_vars

----------------------------------------------------------------------------
(* Properties *)

(* the ORM object the worker is processing *)
cur == active_alerts[idx]

InCycle == pc \in {"loop", "act", "commit"}

(* the worker takes the step at its position pc *)
WorkerStep == pc' # pc \/ idx' # idx

(* C1 (as claimed): when the Notifier call for a triggered Pending alert
   fails, the commit that follows leaves the alert's row as it is: the alert
   is neither marked Triggered nor removed. *)
C1_FailedDeliveryStaysPending ==
    [][(pc = "commit" /\ delivery = "failed" /\ WorkerStep)
         => \A a \in alerts : a.id = cur.id => a \in alerts']_vars

(* C2: an alert whose row has alert_sent = TRUE is not in the part of the
   snapshot the worker has yet to process or is processing, so it is neither
   evaluated nor notified again. *)
C2_TriggeredNeverReevaluated ==
    InCycle =>
        \A i \in idx..Len(active_alerts) :
            \A a \in alerts :
                a.alert_sent => a.uid # active_alerts[i].uid

(* a Triggered alert is in the store while a later cycle evaluates another *)
C2_Witness ==
    /\ pc = "act"
    /\ \E a \in alerts :
          /\ a.alert_sent
          /\ \A i \in 1..Len(active_alerts) : active_alerts[i].uid # a.uid

(* C3 (as claimed): when the user's delete wins the race, the scheduler's
   completion of the same alert is a no-op, not an error. *)
C3_LostRaceIsNoOp ==
    [][(pc = "commit" /\ QueryGet(cur.id) = {} /\ WorkerStep)
         => pc' # "crashed"]_vars

(* C4 (as claimed): an alert created with delete_on_trigger is never in the
   store with status Triggered. *)
C4_DeleteOnTriggerNeverTriggered ==
    \A a \in alerts : a.delete_on_trigger => ~a.alert_sent

(* C5: a step of the loop in which the Quote Source gave no price changes no
   row, calls no Notifier, and goes on with the next alert of the snapshot;
   and every snapshot contains every alert that is Pending when it is taken,
   so the skipped alert is looked at again in the next cycle. *)
C5_UnavailableQuoteSkips ==
    [][/\ (pc = "loop" /\ idx <= Len(active_alerts) /\ WorkerStep
             /\ pc' # "crashed" /\ price' = None)
          => /\ alerts' = alerts
             /\ delivery' = delivery
             /\ pc' = "loop"
             /\ idx' = idx + 1
             /\ active_alerts'[idx].alert_sent = FALSE
       /\ (pc = "fetch" /\ pc' = "loop")
          => \A a \in alerts :
                ~a.alert_sent
                  => \E i \in 1..Len(active_alerts') : active_alerts'[i] = a
      ]_vars

(* the first alert of a cycle was skipped for want of a price and is still
   Pending in the store *)
C5_Witness ==
    /\ pc = "loop"
    /\ idx = 2
    /\ price = None
    /\ \E a \in alerts : a.uid = active_alerts[1].uid /\ ~a.alert_sent

(* the truth table of the condition evaluator *)
TruthTable(comparison, observed, target) ==
    CASE comparison = "above" -> observed >= target
      [] comparison = "below" -> observed <= target

(* C6: the trigger decision the worker has computed for the current alert
   equals the truth table for the alert's comparison and target and the
   observed price, and so does the decision of check_all_alerts. *)
C6_DecisionMatchesTruthTable ==
    pc \in {"act", "commit"} =>
        /\ triggered = TruthTable(cur.condition, price, cur.target_price)
        /\ alert_triggered(cur.condition, price, cur.target_price)
             = TruthTable(cur.condition, price, cur.target_price)

(* the boundary: the observed price equals the target, for either comparison *)
C6_Witness ==
    /\ pc = "act"
    /\ price = cur.target_price
    /\ cur.condition = "below"
    /\ triggered

(* C7 (as claimed): no alert with a non-positive target price, an empty
   owner address or an empty instrument is ever in the store, a create with
   such a field being refused. *)
C7_StoreHoldsOnlyValidAlerts ==
    \A a \in alerts :
        /\ a.target_price > 0
        /\ a.user_phone_number # ""
        /\ a.ticker # << >>

(* C8: once delete_alert has answered 200 for an alert, the alert is in no
   later state of the store (so in no list-by-owner result), and no object
   the worker loads afterwards, by a snapshot or by re-reading a row, is that
   alert. *)
C8_DeletedStaysGone ==
    [][/\ \A a \in alerts' : a.uid \notin deleted'
       /\ \A i \in 1..Len(active_alerts') :
             (i > Len(active_alerts) \/ active_alerts'[i] # active_alerts[i])
                => active_alerts'[i].uid \notin deleted'
      ]_vars

(* a delete has succeeded and the worker, in a cycle, is evaluating an alert
   that was not deleted *)
C8_Witness ==
    /\ deleted # {}
    /\ pc = "act"
    /\ cur.uid \notin deleted
    /\ alerts # {}

(* C9: delete_alert of an id that no row has answers 404 and changes no
   row. *)
C9_DeleteMissingIsNotFound ==
    [][\A id \in Ids :
          (QueryGet(id) = {} /\ delete_alert(id))
             => /\ resp' = Response("delete_alert", 404, << >>)
                /\ alerts' = alerts
                /\ delReq' = delReq
      ]_vars

(* a delete of a missing id was answered while the store holds an alert *)
C9_Witness ==
    /\ resp = Response("delete_alert", 404, << >>)
    /\ alerts # {}

(* what the normalisation of add_alert must give for the inputs used *)
ExpectedTicker(tk) ==
    CASE tk = <<"t", "B">> -> <<"T", "B">>
      [] tk = << >>        -> << >>

ExpectedTarget(tg) ==
    CASE tg = JsonNum(2)            -> 2
      [] tg = JsonNum(0)            -> 0
      [] tg = JsonStr(<<"-", "1">>) -> 0 - 1

(* the entries of a JSON list that carry a given id *)
EntriesOf(list, id) == {i \in 1..Len(list) : list[i].id = id}

(* the owner's list holds exactly one entry for row a, with a's fields *)
ListedOnce(a) ==
    LET list == get_alerts_json(a.user_phone_number)
    IN  /\ Cardinality(EntriesOf(list, a.id)) = 1
        /\ \A i \in EntriesOf(list, a.id) : list[i] = AlertJson(a)

(* C10: right after a successful add_alert the store holds the new alert
   under the owner given, Pending, and its listed entry has the new id, the
   upper-cased input as ticker and the inputs as target price and condition,
   with alert_sent false; as long
   as the alert stays in the store and is not Triggered, its owner and its
   listed fields stay what they were; and in every state the owner's list
   holds exactly one entry for each of the owner's Pending alerts, with the
   fields of the alert. *)
C10_CreateListRoundTrip ==
    /\ [](\A a \in alerts : ~a.alert_sent => ListedOnce(a))
    /\ [][/\ (resp'.code = 201 /\ nextUid' # nextUid)
              => \A ph \in PhonesOwners, tk \in Tickers, tg \in Targets,
                    c \in ConditionsOwners :
                    add_alert(ph, tk, tg, c, FALSE)
                       => \E n \in alerts' :
                             /\ n.uid = nextUid'
                             /\ n.user_phone_number = ph
                             /\ AlertJson(n) =
                                    [id           |-> NewId,
                                     ticker       |-> ExpectedTicker(tk),
                                     target_price |-> ExpectedTarget(tg),
                                     condition    |-> c,
                                     alert_sent   |-> FALSE]
          /\ \A a \in alerts, b \in alerts' :
                (a.uid = b.uid /\ ~b.alert_sent)
                   => /\ AlertJson(b) = AlertJson(a)
                      /\ b.user_phone_number = a.user_phone_number
         ]_vars

(* an alert of the second owner was just created next to one of the first,
   and the second owner's list holds it alone, upper-cased *)
C10_Witness ==
    /\ resp = Response("add_alert", 201, << >>)
    /\ Cardinality(alerts) = 2
    /\ Len(get_alerts_json("+91B")) = 1
    /\ get_alerts_json("+91B")[1].ticker = <<"T", "B">>
    /\ get_alerts_json("+91B")[1].alert_sent = FALSE

(* C11: for every owner address, list-by-owner returns the alerts of the
   store whose owner address it is, each once, and no other. *)
C11_ListIsOwnersAlerts ==
    \A ph \in PhonesOwners :
        LET list == get_alerts_json(ph)
            mine == {a \in alerts : a.user_phone_number = ph}
        IN  /\ Len(list) = Cardinality(mine)
            /\ {list[i] : i \in 1..Len(list)} = {AlertJson(a) : a \in mine}

(* each of the two owners has one alert in the store and would be listed
   one entry *)
C11_Witness ==
    /\ \E a, b \in alerts :
          /\ a.user_phone_number = "+91A"
          /\ b.user_phone_number = "+91B"
    /\ Len(get_alerts_json("+91A")) = 1
    /\ resp.op = "get_alerts"

(* C12 (as claimed): an id is never given to a second alert, so an id held
   by a request or by the scheduler never names another alert than the one it
   was read from: a row of the store with the id of an object of the worker's
   snapshot, or of a delete under way, is that same alert. *)
C12_IdNeverReused ==
    /\ \A i \in 1..Len(active_alerts) :
          \A a \in alerts :
              a.id = active_alerts[i].id => a.uid = active_alerts[i].uid
    /\ \A r \in delReq :
          \A a \in alerts : a.id = r.id => a.uid = r.uid

(* a credential of the configuration is missing or empty *)
CredentialMissing ==
    \E k \in CredKeys : k \notin DOMAIN TWILIO_CONFIG \/ TWILIO_CONFIG[k] = ""

(* C13: with a credential missing or empty the worker runs no cycle: it
   takes no snapshot, asks for no price, calls no Notifier, and no row is
   marked Triggered or removed but by a delete request; it ends idle, not
   crashed; the API still creates and deletes. *)
C13_NoCycleWithoutCredentials ==
    [][CredentialMissing
         => /\ pc' \in {"start", "idle"}
            /\ UNCHANGED <<active_alerts, idx, expired, price, triggered,
                           delivery>>
            /\ \A a \in alerts' : ~a.alert_sent
            /\ (alerts' # alerts) => (nextUid' # nextUid \/ delReq' # delReq)
      ]_vars

(* only the auth token is missing; the worker idles and the API has created
   an alert and deleted another *)
C13_Witness ==
    /\ DOMAIN TWILIO_CONFIG = {"account_sid", "phone_number"}
    /\ TWILIO_CONFIG["account_sid"] = "set"
    /\ TWILIO_CONFIG["phone_number"] = "set"
    /\ pc = "idle"
    /\ alerts # {}
    /\ deleted # {}

(* C14 (as claimed): an exception in the processing of one alert does not
   keep the worker from the remaining alerts of the snapshot: whenever the
   worker has stopped on an exception, no alert of its snapshot was left
   behind the one it stopped at. *)
C14_FailureIsolatedPerAlert ==
    pc = "crashed" => idx >= Len(active_alerts)

(* C15 (as claimed): started with complete credentials, the worker's loop is
   never ended by a failure inside a cycle: the worker is always at a
   position of its loop, from which a further cycle is started. *)
C15_LoopNeverStops ==
    configured => pc \in {"start", "fetch", "loop", "act", "commit"}

(* C16: in a cycle the Notifier is called for the alert the worker is at,
   once, after the trigger decision and before the commit; the worker changes
   the store in the commit alone, and only after a delivery attempt for the
   alert it is at; the commit moves on to the next alert of the snapshot, whose
   alerts are distinct, and the worker never moves back within a cycle. *)
C16_NotifyOnceBeforeCommit ==
    /\ [](InCycle => \A i, j \in 1..Len(active_alerts) :
                        active_alerts[i].id = active_alerts[j].id => i = j)
    /\ [][/\ (WorkerStep /\ alerts' # alerts)
                => (pc = "commit" /\ delivery # "none")
          /\ (delivery' # "none" /\ delivery' # delivery)
                => /\ pc = "act" /\ triggered /\ delivery = "none"
                   /\ pc' = "commit" /\ idx' = idx /\ alerts' = alerts
          /\ (pc = "commit" /\ WorkerStep)
                => /\ delivery' = "none"
                   /\ pc' = "crashed" \/ (pc' = "loop" /\ idx' = idx + 1)
          /\ (InCycle /\ InCycle')
                => /\ idx' >= idx
                   /\ \A i \in 1..Len(active_alerts) :
                         /\ i \in 1..Len(active_alerts')
                         /\ active_alerts'[i].id = active_alerts[i].id
         ]_vars

(* the worker has called the Notifier for the first alert of its snapshot and
   then marked it Triggered *)
C16_Witness ==
    /\ pc = "loop"
    /\ idx = 2
    /\ expired
    /\ \E a \in alerts : a.alert_sent /\ a.id = active_alerts[1].id

(* the alert a, Pending in the store, is Triggered or gone after the step *)
Completed(a) ==
    /\ ~a.alert_sent
    /\ \A b \in alerts' : b.uid = a.uid => b.alert_sent

(* C17 (as claimed): the worker completes an alert, marking it Triggered or
   removing it, only in a step of a cycle whose observed price satisfies
   that alert's own condition. *)
C17_CompletedOnlyWhenSatisfied ==
    [][\A a \in alerts :
          (WorkerStep /\ Completed(a))
             => /\ ~Falsy(price)
                /\ Triggered(a.condition, price, a.target_price)
      ]_vars

(* C18: a step changes of a stored alert nothing but its status, from
   Pending to Triggered, or removes it: id, owner, instrument, target price,
   comparison and delete_on_trigger stay as created.  The status changes and
   a row goes in the worker's commit alone, which follows a trigger decision
   that was true; a row goes besides in the commit of a delete request.  A
   listing and every other step of the worker change no row; a create adds
   one row and changes no other. *)
C18_OnlyCompletionAndDeleteChangeAlerts ==
    [][/\ \A a \in alerts : \A b \in alerts' :
             b.uid = a.uid
                => /\ b.id = a.id
                   /\ b.user_phone_number = a.user_phone_number
                   /\ b.ticker = a.ticker
                   /\ b.target_price = a.target_price
                   /\ b.condition = a.condition
                   /\ b.delete_on_trigger = a.delete_on_trigger
                   /\ a.alert_sent => b.alert_sent
                   /\ (b.alert_sent /\ ~a.alert_sent)
                         => (pc = "commit" /\ WorkerStep)
       /\ (WorkerStep /\ alerts' # alerts) => (pc = "commit" /\ triggered)
       /\ (resp'.op = "get_alerts" /\ resp' # resp) => alerts' = alerts
       /\ (~WorkerStep /\ alerts' # alerts)
             => \/ /\ nextUid' = nextUid + 1
                   /\ alerts \subseteq alerts'
                   /\ Cardinality(alerts') = Cardinality(alerts) + 1
                \/ /\ delReq' # delReq
                   /\ alerts' \subseteq alerts
      ]_vars

(* one alert has been marked Triggered by the worker, another removed by a
   delete request, and a listing has just been served *)
C18_Witness ==
    /\ \E a \in alerts : a.alert_sent
    /\ deleted # {}
    /\ resp.op = "get_alerts"
    /\ InCycle

(* C19 (as claimed): an alert whose comparison is neither "above" nor "below"
   is never completed by the worker: it is in the store Pending until a
   delete request for it is served. *)
C19_UnknownComparisonStaysPending ==
    /\ [](\A a \in alerts :
             a.condition \notin {"above", "below"} => ~a.alert_sent)
    /\ [][\A a \in alerts :
             (a.condition \notin {"above", "below"} /\ WorkerStep)
                => \E b \in alerts' : b.uid = a.uid
         ]_vars

(* C20 (as claimed): with complete credentials, a Pending alert of
   comparison "above" or "below" leaves Pending once the prices satisfy its
   condition, whatever requests are served for other alerts: so the worker
   is never out of its loop while such an alert is Pending in the store. *)
C20_PendingAlertNeverStranded ==
    \A a \in alerts :
        (configured /\ ~a.alert_sent /\ a.condition \in {"above", "below"})
            => pc # "crashed"

====
